---- MODULE Spec2Model ----
(***************************************************************************)
(* State-machine model of the side RCU primitive (src/src/rcu.h).          *)
(*                                                                         *)
(* The read side (side_rcu_read_begin, side_rcu_read_end,                  *)
(* side_rcu_wake_up_gp, side_rcu_dereference, side_rcu_assign_pointer) is  *)
(* translated from rcu.h, one action per shared-memory access.  The body   *)
(* of side_rcu_wait_grace_period is only declared in rcu.h (line 160); it  *)
(* is modelled from the eight-step algorithm of the design document,       *)
(* section 4.2.  Memory is sequentially consistent: the paired barriers    *)
(* (A)..(G) of rcu.h and the process-wide fences of the detector are what  *)
(* make this so.                                                           *)
(***************************************************************************)
EXTENDS Integers, FiniteSets, TLC

\* ---------------------------------------------------------------- bounds
NReaders == 2
NCpus == 2
NDetectors == 2
MaxSections == 1
MaxGp == 2

Readers == 1..NReaders
Detectors == (NReaders + 1)..(NReaders + NDetectors)
Cpus == 0..(NCpus - 1)
Periods == {0, 1}

\* sched_getcpu() answers a CPU number, or a negative value on failure.
CpuQueryFailed == -1
CpuQueryResults == Cpus \cup {CpuQueryFailed}

\* The two values of gp_state->futex: idle, and "detector sleeping".
FutexIdle == 0
FutexSleeping == -1

VARIABLES
    rseq_available,  \* side_rcu_rseq_membarrier_available, fixed at init
    period,          \* gp_state->period
    futex,           \* gp_state->futex
    gp_lock,         \* gp_state->gp_lock: 0 when free, else the holder
    begin,           \* percpu_state[cpu].count[period].begin
    rseq_begin,      \* percpu_state[cpu].count[period].rseq_begin
    end,             \* percpu_state[cpu].count[period].end
    rseq_end,        \* percpu_state[cpu].count[period].rseq_end
    pc,              \* reader: position inside read_begin / read_end
    ticket,          \* reader: the period returned by read_begin
    held,            \* reader: the data version it dereferenced (0: none)
    nsec,            \* reader: critical sections started so far
    gpc,             \* detector: position inside wait_grace_period
    gp_period,       \* detector: the period P it quiesces
    target,          \* detector: per-CPU snapshot of begin + rseq_begin
    gp_i,            \* detector: CPU index of the snapshot / compare loop
    woken,           \* a FUTEX_WAKE reached the sleeping detector
    ngp,             \* detector: calls of wait_grace_period made so far
    ptr,             \* the published data version (RCU-protected pointer)
    prev,            \* writer: the version its publication replaced
    retired,         \* versions marked retired
    heldAtCall,      \* history: readers inside a section when d's call began
    nflips,          \* history: number of period flips so far
    flippedSince,    \* history: the period was flipped since the last return
    retTo,           \* history: period the last returned call flipped to
    sawReturn,       \* history: a call had returned, unflipped since, when r loaded the period
    endSinceMark,    \* history: how far each reader's read_end got since the mark
    earlyWake,       \* history: this call was woken while a snapshot-counted reader was inside
    flippedSinceLoad, \* history: the period was flipped after r loaded it
    queryFailed      \* history: sched_getcpu() failed in r's last increment

vars == <<rseq_available, period, futex, gp_lock, begin, rseq_begin, end,
          rseq_end, pc, ticket, held, nsec, gpc, gp_period, target,
          gp_i, woken, ngp, ptr, prev, retired, heldAtCall, nflips, flippedSince,
          retTo, sawReturn, endSinceMark, earlyWake, flippedSinceLoad,
          queryFailed>>

readerVars == <<pc, ticket, held, nsec>>
counterVars == <<begin, rseq_begin, end, rseq_end>>
gpVars == <<gpc, gp_period, target, gp_i, ngp, prev>>
histVars == <<heldAtCall, nflips, flippedSince, retTo, sawReturn, endSinceMark>>
auxVars == <<earlyWake, flippedSinceLoad, queryFailed>>

ZeroCounters == [c \in Cpus |-> [p \in Periods |-> 0]]
ZeroTarget == [c \in Cpus |-> 0]
NoneSinceMark == [r \in Readers |-> "no"]

\* ---------------------------------------------------------------- helpers
RECURSIVE SumOver(_, _)
SumOver(f, S) ==
    IF S = {} THEN 0
    ELSE LET x == CHOOSE y \in S : TRUE IN f[x] + SumOver(f, S \ {x})

\* begin + rseq_begin of one CPU for one period
BeginSum(c, p) == begin[c][p] + rseq_begin[c][p]
\* end + rseq_end of one CPU for one period
EndSum(c, p) == end[c][p] + rseq_end[c][p]
TotalBegin(p) == SumOver([c \in Cpus |-> BeginSum(c, p)], Cpus)
TotalEnd(p) == SumOver([c \in Cpus |-> EndSum(c, p)], Cpus)

\* A reader that completed read_begin and has not yet done the increment of
\* read_end is inside its critical section.
InSection(r) == pc[r] \in {"in", "cs"}

Init ==
    /\ rseq_available \in BOOLEAN
    /\ period = 0
    /\ futex = FutexIdle
    /\ gp_lock = 0
    /\ begin = ZeroCounters
    /\ rseq_begin = ZeroCounters
    /\ end = ZeroCounters
    /\ rseq_end = ZeroCounters
    /\ pc = [r \in Readers |-> "idle"]
    /\ ticket = [r \in Readers |-> 0]
    /\ held = [r \in Readers |-> 0]
    /\ nsec = [r \in Readers |-> 0]
    /\ gpc = [d \in Detectors |-> "idle"]
    /\ gp_period = [d \in Detectors |-> 0]
    /\ target = [d \in Detectors |-> ZeroTarget]
    /\ gp_i = [d \in Detectors |-> 0]
    /\ woken = FALSE
    /\ ngp = [d \in Detectors |-> 0]
    /\ ptr = 1
    /\ prev = [d \in Detectors |-> 0]
    /\ retired = {}
    /\ heldAtCall = [d \in Detectors |-> {}]
    /\ nflips = 0
    /\ flippedSince = FALSE
    /\ retTo = 0
    /\ sawReturn = [r \in Readers |-> FALSE]
    /\ endSinceMark = NoneSinceMark
    /\ earlyWake = FALSE
    /\ flippedSinceLoad = [r \in Readers |-> FALSE]
    /\ queryFailed = [r \in Readers |-> FALSE]

\* ------------------------------------------------------------ read side
\* A load that answers the other counter bank.
LoadPeriodFlipped == 1 - period

\* rcu.h:68  the relaxed load of gp_state->period
LoadPeriod == period

\* A fast path taken without looking at the capability flag.
RseqAlways == TRUE

\* rcu.h:72, 108  the fast path is taken only when the capability is set
RseqAllowed == rseq_available

\* A failed CPU query that is sent to the last CPU's slot instead of CPU 0's.
FallbackCpuLast(q) == IF q < 0 THEN NCpus - 1 ELSE q

\* rcu.h:94-96, 136-138  cpu = sched_getcpu(); if (cpu < 0) cpu = 0;
FallbackCpu(q) == IF q < 0 THEN 0 ELSE q

\* A read_end that counts in the period current at the time it runs.
EndPeriodCurrent(t, cur) == cur

\* rcu.h:125, 140  read_end counts in the period of its ticket argument
EndPeriod(t, cur) == t

\* A wake-up issued after every read_end, whatever the futex holds.
WakeNeededAlways(f) == TRUE

\* A wake-up test that looks for the idle value instead of -1.
WakeNeededWhenIdle(f) == f = FutexIdle

\* rcu.h:58  the wake-up is needed when the futex reads -1
WakeNeeded(f) == f = FutexSleeping

\* side_rcu_read_begin, rcu.h:68
ReadBeginLoad(r) ==
    /\ pc[r] = "idle"
    /\ nsec[r] < MaxSections
    /\ pc' = [pc EXCEPT ![r] = "loaded"]
    /\ ticket' = [ticket EXCEPT ![r] = LoadPeriod]
    /\ nsec' = [nsec EXCEPT ![r] = @ + 1]
    /\ sawReturn' = [sawReturn EXCEPT ![r] = nflips > 0 /\ ~flippedSince]
    /\ flippedSinceLoad' = [flippedSinceLoad EXCEPT ![r] = FALSE]
    /\ UNCHANGED <<earlyWake, queryFailed, rseq_available, period, futex, gp_lock, counterVars, held,
                   gpVars, woken, ptr, retired, heldAtCall, nflips,
                   flippedSince, retTo, endSinceMark>>

\* A fast path that falls through to the fallback increment after its
\* restartable add has committed.
ReadBeginRseqFallthrough(r, c) ==
    /\ pc[r] = "loaded"
    /\ RseqAllowed
    /\ rseq_begin' = [rseq_begin EXCEPT ![c][ticket[r]] = @ + 1]
    /\ begin' = [begin EXCEPT ![c][ticket[r]] = @ + 1]
    /\ pc' = [pc EXCEPT ![r] = "in"]
    /\ UNCHANGED <<auxVars, rseq_available, period, futex, gp_lock, end,
                   rseq_end, ticket, held, nsec, gpVars, woken, ptr, retired,
                   histVars>>

\* side_rcu_read_begin, rcu.h:72-91: rseq_addv succeeds on the CPU the
\* thread runs on, c.
ReadBeginRseq(r, c) ==
    /\ pc[r] = "loaded"
    /\ RseqAllowed
    /\ rseq_begin' = [rseq_begin EXCEPT ![c][ticket[r]] = @ + 1]
    /\ pc' = [pc EXCEPT ![r] = "in"]
    /\ UNCHANGED <<auxVars, rseq_available, period, futex, gp_lock, begin, end,
                   rseq_end, ticket, held, nsec, gpVars, woken, ptr, retired,
                   histVars>>

\* A fallback increment that first waits for gp_lock to be free.
ReadBeginFallbackUnderLock(r, q) ==
    /\ gp_lock = 0
    /\ pc[r] = "loaded"
    /\ begin' = [begin EXCEPT ![FallbackCpu(q)][ticket[r]] = @ + 1]
    /\ pc' = [pc EXCEPT ![r] = "in"]
    /\ queryFailed' = [queryFailed EXCEPT ![r] = q < 0]
    /\ UNCHANGED <<earlyWake, flippedSinceLoad, rseq_available, period, futex, gp_lock, rseq_begin, end,
                   rseq_end, ticket, held, nsec, gpVars, woken, ptr, retired,
                   histVars>>

\* side_rcu_read_begin, rcu.h:93-99: the capability is off or rseq_addv
\* aborted (changing nothing); sched_getcpu() answers q.
ReadBeginFallback(r, q) ==
    /\ pc[r] = "loaded"
    /\ begin' = [begin EXCEPT ![FallbackCpu(q)][ticket[r]] = @ + 1]
    /\ pc' = [pc EXCEPT ![r] = "in"]
    /\ queryFailed' = [queryFailed EXCEPT ![r] = q < 0]
    /\ UNCHANGED <<earlyWake, flippedSinceLoad, rseq_available, period, futex, gp_lock, rseq_begin, end,
                   rseq_end, ticket, held, nsec, gpVars, woken, ptr, retired,
                   histVars>>

\* side_rcu_dereference, rcu.h:151-156, inside the critical section
Dereference(r) ==
    /\ pc[r] = "in"
    /\ held' = [held EXCEPT ![r] = ptr]
    /\ pc' = [pc EXCEPT ![r] = "cs"]
    /\ queryFailed' = [queryFailed EXCEPT ![r] = FALSE]
    /\ UNCHANGED <<earlyWake, flippedSinceLoad, rseq_available, period, futex, gp_lock, counterVars,
                   ticket, nsec, gpVars, woken, ptr, retired, histVars>>

\* The detector has marked the futex and is about to block on it or blocked.
MarkInEffect == \E d \in Detectors : gpc[d] \in {"wait", "asleep"}

\* The bookkeeping common to both increments of read_end: the reader leaves
\* its section and stops holding its version.
LeaveSection(r) ==
    /\ pc' = [pc EXCEPT ![r] = "ended"]
    /\ held' = [held EXCEPT ![r] = 0]
    /\ heldAtCall' = [d \in Detectors |-> heldAtCall[d] \ {r}]
    /\ endSinceMark' = [endSinceMark EXCEPT ![r] = IF MarkInEffect THEN "inc" ELSE "no"]
    /\ sawReturn' = [sawReturn EXCEPT ![r] = FALSE]

\* side_rcu_read_end, rcu.h:108-133: rseq_addv succeeds on CPU c
ReadEndRseq(r, c) ==
    /\ pc[r] = "cs"
    /\ RseqAllowed
    /\ rseq_end' = [rseq_end EXCEPT ![c][EndPeriod(ticket[r], period)] = @ + 1]
    /\ LeaveSection(r)
    /\ UNCHANGED <<auxVars, rseq_available, period, futex, gp_lock, begin, rseq_begin,
                   end, ticket, nsec, gpVars, woken, ptr, retired,
                   nflips, flippedSince, retTo>>

\* side_rcu_read_end, rcu.h:135-146: atomic fallback, sched_getcpu() = q
ReadEndFallback(r, q) ==
    /\ pc[r] = "cs"
    /\ end' = [end EXCEPT ![FallbackCpu(q)][EndPeriod(ticket[r], period)] = @ + 1]
    /\ LeaveSection(r)
    /\ queryFailed' = [queryFailed EXCEPT ![r] = q < 0]
    /\ UNCHANGED <<earlyWake, flippedSinceLoad, rseq_available, period, futex, gp_lock, begin, rseq_begin,
                   rseq_end, ticket, nsec, gpVars, woken, ptr, retired,
                   nflips, flippedSince, retTo>>

\* side_rcu_wake_up_gp, rcu.h:58: load the futex
WakeUpGpLoad(r) ==
    /\ pc[r] = "ended"
    /\ pc' = [pc EXCEPT ![r] = IF WakeNeeded(futex) THEN "wstore" ELSE "idle"]
    /\ endSinceMark' = [endSinceMark EXCEPT ![r] = IF @ = "inc" THEN "load" ELSE @]
    /\ queryFailed' = [queryFailed EXCEPT ![r] = FALSE]
    /\ flippedSinceLoad' = [flippedSinceLoad EXCEPT ![r] = FALSE]
    /\ UNCHANGED <<earlyWake, rseq_available, period, futex, gp_lock, counterVars,
                   ticket, held, nsec, gpVars, woken, ptr, retired,
                   heldAtCall, nflips, flippedSince, retTo, sawReturn>>

\* side_rcu_wake_up_gp, rcu.h:59: store 0
WakeUpGpStore(r) ==
    /\ pc[r] = "wstore"
    /\ futex' = FutexIdle
    /\ pc' = [pc EXCEPT ![r] = "wwake"]
    /\ UNCHANGED <<auxVars, rseq_available, period, gp_lock, counterVars, ticket,
                   held, nsec, gpVars, woken, ptr, retired, histVars>>

\* side_rcu_wake_up_gp, rcu.h:61: futex(FUTEX_WAKE, 1) wakes a thread
\* blocked on the cell, if there is one.
WakeUpGpWake(r) ==
    /\ pc[r] = "wwake"
    /\ woken' = IF \E d \in Detectors : gpc[d] = "asleep" THEN TRUE ELSE woken
    /\ pc' = [pc EXCEPT ![r] = "idle"]
    /\ UNCHANGED <<auxVars, rseq_available, period, futex, gp_lock, counterVars,
                   ticket, held, nsec, gpVars, ptr, retired, histVars>>

ReaderStep(r) ==
    \/ ReadBeginLoad(r)
    \/ \E c \in Cpus : ReadBeginRseq(r, c)
    \/ \E q \in CpuQueryResults : ReadBeginFallback(r, q)
    \/ Dereference(r)
    \/ \E c \in Cpus : ReadEndRseq(r, c)
    \/ \E q \in CpuQueryResults : ReadEndFallback(r, q)
    \/ WakeUpGpLoad(r)
    \/ WakeUpGpStore(r)
    \/ WakeUpGpWake(r)

\* ----------------------------------------------------------- write side
\* A comparison that passes whatever the counters hold.
CaughtUpAlways(e, t) == TRUE

\* A comparison that lets a CPU lag its target by one.
CaughtUpOffByOne(e, t) == e + 1 >= t

\* Design 4.2 step 5: a CPU has caught up when its end sum reaches its target.
CaughtUp(e, t) == e >= t

\* side_rcu_assign_pointer, rcu.h:158: the writer publishes a new version
\* and remembers the one it replaced.
AssignPointer(d) ==
    /\ gpc[d] = "idle"
    /\ ngp[d] < MaxGp
    /\ prev' = [prev EXCEPT ![d] = ptr]
    /\ ptr' = ptr + 1
    /\ ngp' = [ngp EXCEPT ![d] = @ + 1]
    /\ gpc' = [gpc EXCEPT ![d] = "call"]
    /\ UNCHANGED <<auxVars, rseq_available, period, futex, gp_lock, counterVars,
                   readerVars, gp_period, target, gp_i, woken, retired,
                   histVars>>

\* side_rcu_wait_grace_period is called, rcu.h:160
GpCall(d) ==
    /\ gpc[d] = "call"
    /\ gpc' = [gpc EXCEPT ![d] = "lock"]
    /\ heldAtCall' = [heldAtCall EXCEPT ![d] = {r \in Readers : InSection(r)}]
    /\ UNCHANGED <<auxVars, rseq_available, period, futex, gp_lock, counterVars,
                   readerVars, gp_period, target, gp_i, woken, ngp, ptr, prev,
                   retired, nflips, flippedSince, retTo, sawReturn, endSinceMark>>

\* A lock acquisition that does not wait for the holder to release.
GpLockUnguarded(d) ==
    /\ gpc[d] = "lock"
    /\ gp_lock' = d
    /\ gp_period' = [gp_period EXCEPT ![d] = period]
    /\ gp_i' = [gp_i EXCEPT ![d] = 0]
    /\ gpc' = [gpc EXCEPT ![d] = "snap"]
    /\ UNCHANGED <<auxVars, rseq_available, period, futex, counterVars, readerVars,
                   target, woken, ngp, ptr, prev, retired, histVars>>

\* Steps 1-3: acquire gp_lock, record the active period P, fence.
GpLock(d) ==
    /\ gpc[d] = "lock"
    /\ gp_lock = 0
    /\ gp_lock' = d
    /\ gp_period' = [gp_period EXCEPT ![d] = period]
    /\ gp_i' = [gp_i EXCEPT ![d] = 0]
    /\ gpc' = [gpc EXCEPT ![d] = "snap"]
    /\ UNCHANGED <<auxVars, rseq_available, period, futex, counterVars, readerVars,
                   target, woken, ngp, ptr, prev, retired, histVars>>

\* Step 4: snapshot begin + rseq_begin of P for one CPU as its target.
GpSnapshot(d) ==
    /\ gpc[d] = "snap"
    /\ target' = [target EXCEPT ![d][gp_i[d]] = BeginSum(gp_i[d], gp_period[d])]
    /\ IF gp_i[d] = NCpus - 1
       THEN /\ gpc' = [gpc EXCEPT ![d] = "check"]
            /\ gp_i' = [gp_i EXCEPT ![d] = 0]
       ELSE /\ gp_i' = [gp_i EXCEPT ![d] = @ + 1]
            /\ UNCHANGED gpc
    /\ UNCHANGED <<auxVars, rseq_available, period, futex, gp_lock, counterVars,
                   readerVars, gp_period, woken, ngp, ptr, prev, retired,
                   histVars>>

\* Step 5: compare end + rseq_end of P for one CPU against its target.
GpCheck(d) ==
    /\ gpc[d] = "check"
    /\ IF CaughtUp(EndSum(gp_i[d], gp_period[d]), target[d][gp_i[d]])
       THEN IF gp_i[d] = NCpus - 1
            THEN /\ gpc' = [gpc EXCEPT ![d] = "flip"]
                 /\ gp_i' = [gp_i EXCEPT ![d] = 0]
            ELSE /\ gp_i' = [gp_i EXCEPT ![d] = @ + 1]
                 /\ UNCHANGED gpc
       ELSE /\ gpc' = [gpc EXCEPT ![d] = "mark"]
            /\ gp_i' = [gp_i EXCEPT ![d] = 0]
    /\ UNCHANGED <<auxVars, rseq_available, period, futex, gp_lock, counterVars,
                   readerVars, gp_period, target, woken, ngp, ptr, prev,
                   retired, histVars>>

\* Step 5: mark the wake channel "sleeping" and fence.
GpMark(d) ==
    /\ gpc[d] = "mark"
    /\ futex' = FutexSleeping
    /\ endSinceMark' = NoneSinceMark
    /\ gpc' = [gpc EXCEPT ![d] = "wait"]
    /\ UNCHANGED <<auxVars, rseq_available, period, gp_lock, counterVars, readerVars,
                   gp_period, target, gp_i, woken, ngp, ptr, prev, retired,
                   heldAtCall, nflips, flippedSince, retTo, sawReturn>>

\* futex(FUTEX_WAIT, -1, timeout) blocks only if the cell still holds -1.
FutexWaitBlocks(f) == f = FutexSleeping

\* Step 5: block on the wake channel with a bounded timeout.
GpWait(d) ==
    /\ gpc[d] = "wait"
    /\ gpc' = [gpc EXCEPT ![d] = IF FutexWaitBlocks(futex) THEN "asleep" ELSE "check"]
    /\ woken' = FALSE
    /\ endSinceMark' = IF FutexWaitBlocks(futex) THEN endSinceMark ELSE NoneSinceMark
    /\ UNCHANGED <<auxVars, rseq_available, period, futex, gp_lock, counterVars,
                   readerVars, gp_period, target, gp_i, ngp, ptr, prev,
                   retired, heldAtCall, nflips, flippedSince, retTo, sawReturn>>

\* Step 5: the blocked detector is woken and retries.
GpWoken(d) ==
    /\ gpc[d] = "asleep"
    /\ woken
    /\ woken' = FALSE
    /\ gpc' = [gpc EXCEPT ![d] = "check"]
    /\ endSinceMark' = NoneSinceMark
    /\ earlyWake' = (\E r \in heldAtCall[d] : ticket[r] = gp_period[d] /\ InSection(r))
    /\ UNCHANGED <<flippedSinceLoad, queryFailed, rseq_available, period, futex, gp_lock, counterVars,
                   readerVars, gp_period, target, gp_i, ngp, ptr, prev,
                   retired, heldAtCall, nflips, flippedSince, retTo, sawReturn>>

\* Step 5: the bounded timeout expires and the detector retries.
GpTimeout(d) ==
    /\ gpc[d] = "asleep"
    /\ ~woken
    /\ gpc' = [gpc EXCEPT ![d] = "check"]
    /\ endSinceMark' = NoneSinceMark
    /\ UNCHANGED <<auxVars, rseq_available, period, futex, gp_lock, counterVars,
                   readerVars, gp_period, target, gp_i, woken, ngp, ptr, prev,
                   retired, heldAtCall, nflips, flippedSince, retTo, sawReturn>>

\* Steps 6-7: flip the period index and fence.
GpFlip(d) ==
    /\ gpc[d] = "flip"
    /\ period' = 1 - gp_period[d]
    /\ nflips' = nflips + 1
    /\ flippedSince' = TRUE
    /\ gpc' = [gpc EXCEPT ![d] = "unlock"]
    /\ flippedSinceLoad' = [r \in Readers |-> pc[r] \in {"loaded", "in", "cs"}]
    /\ UNCHANGED <<earlyWake, queryFailed, rseq_available, futex, gp_lock, counterVars, readerVars,
                   gp_period, target, gp_i, woken, ngp, ptr, prev, retired,
                   heldAtCall, retTo, sawReturn, endSinceMark>>

\* Step 8: release gp_lock; wait_grace_period returns.
GpUnlock(d) ==
    /\ gpc[d] = "unlock"
    /\ gp_lock' = 0
    /\ gpc' = [gpc EXCEPT ![d] = "ret"]
    /\ flippedSince' = FALSE
    /\ retTo' = 1 - gp_period[d]
    /\ earlyWake' = FALSE
    /\ UNCHANGED <<flippedSinceLoad, queryFailed, rseq_available, period, futex, counterVars, readerVars,
                   gp_period, target, gp_i, woken, ngp, ptr, prev, retired,
                   heldAtCall, nflips, sawReturn, endSinceMark>>

\* The writer marks the version it replaced retired.
Retire(d) ==
    /\ gpc[d] = "ret"
    /\ retired' = retired \cup {prev[d]}
    /\ gpc' = [gpc EXCEPT ![d] = "idle"]
    /\ target' = [target EXCEPT ![d] = ZeroTarget]
    /\ gp_period' = [gp_period EXCEPT ![d] = 0]
    /\ heldAtCall' = [heldAtCall EXCEPT ![d] = {}]
    /\ UNCHANGED <<auxVars, rseq_available, period, futex, gp_lock, counterVars,
                   readerVars, gp_i, woken, ngp, ptr, prev, nflips, flippedSince,
                   retTo, sawReturn, endSinceMark>>

DetectorStep(d) ==
    \/ AssignPointer(d)
    \/ GpCall(d)
    \/ GpLock(d)
    \/ GpSnapshot(d)
    \/ GpCheck(d)
    \/ GpMark(d)
    \/ GpWait(d)
    \/ GpWoken(d)
    \/ GpTimeout(d)
    \/ GpFlip(d)
    \/ GpUnlock(d)
    \/ Retire(d)

\* The threads RS run the read side, the threads DS the write side.
NextFor(RS, DS) ==
    \/ \E r \in RS : ReaderStep(r)
    \/ \E d \in DS : DetectorStep(d)

\* Every reader thread against one writer thread.
Writer == NReaders + 1
Next == NextFor(Readers, {Writer})
Spec == Init /\ [][Next]_vars

\* The threads are scheduled fairly: every reader and the writer keep taking
\* their steps, the bounded timeout of the futex wait included.
FairSpec ==
    /\ Spec
    /\ \A r \in Readers : WF_vars(ReaderStep(r))
    /\ WF_vars(DetectorStep(Writer))

\* One reader thread against every writer thread: concurrent callers of
\* side_rcu_wait_grace_period.
NextSerial == NextFor({1}, Detectors)
SpecSerial == Init /\ [][NextSerial]_vars

\* ------------------------------------------------------------------ claims
\* C1 (no false retirement): when a call of wait_grace_period returns, no
\* reader that was inside its critical section when the call began is still
\* inside it, whatever its ticket and CPU.
NoFalseRetirement ==
    \A d \in Detectors : gpc[d] = "ret" => heldAtCall[d] = {}

\* C2 (reclamation safety): no reader is inside its critical section holding
\* a version that has been marked retired.
ReclamationSafety ==
    \A r \in Readers : pc[r] = "cs" => held[r] \notin retired

\* Every reader is outside read_begin / read_end and outside any section.
AllReadersEnded == \A r \in Readers : pc[r] = "idle"

\* Some reader began on CPU a and ended on another CPU b in period p: a has
\* one more begin than end, b one more end than begin.
MigratedImbalance(p) ==
    \E a, b \in Cpus :
        /\ a # b
        /\ BeginSum(a, p) = EndSum(a, p) + 1
        /\ EndSum(b, p) = BeginSum(b, p) + 1

\* C3 (migration safety): once every reader has ended, readers that ended on
\* another CPU than they began on included, the detector's comparison finds
\* every CPU caught up, so wait_grace_period returns instead of staying stuck.
MigrationSafety ==
    \A d \in Detectors :
        (/\ gpc[d] = "check"
         /\ AllReadersEnded
         /\ MigratedImbalance(gp_period[d]))
        => CaughtUp(EndSum(gp_i[d], gp_period[d]), target[d][gp_i[d]])

\* C4 as stated (balance invariant): when wait_grace_period returns after
\* quiescing P, every CPU's end sum for P equals the target snapshotted for it.
BalanceAtReturn ==
    \A d \in Detectors :
        gpc[d] = "ret" =>
            \A c \in Cpus : EndSum(c, gp_period[d]) = target[d][c]

\* C4 as amended: when wait_grace_period returns after quiescing P, every
\* CPU's end sum for P is at least the target snapshotted for it.
BalanceAtLeastAtReturn ==
    \A d \in Detectors :
        gpc[d] = "ret" =>
            \A c \in Cpus : EndSum(c, gp_period[d]) >= target[d][c]

\* C4 witness: a call returned after snapshotting a nonzero target that the
\* end sum then reached.
BalanceWitness ==
    \E d \in Detectors :
        /\ gpc[d] = "ret"
        /\ \E c \in Cpus : target[d][c] > 0
\* C5 (detector progress): under fair scheduling, with every reader that
\* begins also ending, every call of wait_grace_period eventually returns.
DetectorProgress ==
    \A d \in Detectors : (gpc[d] = "lock") ~> (gpc[d] = "ret")

\* A reader has seen -1 and still owes its store of 0 or its FUTEX_WAKE.
WakePending == \E r \in Readers : pc[r] \in {"wstore", "wwake"}

FlipVisibility ==
    [][\A r \in Readers :
           (/\ pc[r] = "idle"
            /\ pc'[r] = "loaded"
            /\ nflips > 0
            /\ ~flippedSince)
           => ticket'[r] = retTo]_vars

\* C7 witness: a reader began after the first call returned and holds the
\* period that call flipped to.
FlipWitness ==
    \E r \in Readers :
        /\ pc[r] \in {"loaded", "in", "cs"}
        /\ sawReturn[r]
        /\ ticket[r] = 1
        /\ retTo = 1

\* The number of steps a reader still has to take, at most, before it is back
\* outside read_begin / read_end.
StepsLeft(p) ==
    CASE p = "loaded" -> 6
      [] p = "in" -> 5
      [] p = "cs" -> 4
      [] p = "ended" -> 3
      [] p = "wstore" -> 2
      [] p = "wwake" -> 1
      [] OTHER -> 0

\* C8 (readers never block): in every reachable state a reader that is inside
\* read_begin or read_end, or about to call read_begin, can take its next
\* step whatever the detector is doing, and every step brings it closer to
\* the end of the operation, so each operation ends in a bounded number of
\* the reader's own steps.
ReadersNeverBlock ==
    /\ [](\A r \in Readers :
            (pc[r] # "idle" \/ nsec[r] < MaxSections) => ENABLED ReaderStep(r))
    /\ [][\A r \in Readers :
            (pc'[r] # pc[r] /\ pc[r] # "idle")
            => StepsLeft(pc'[r]) < StepsLeft(pc[r])]_vars

\* C8 witness: a reader is about to do its begin increment while the detector
\* holds gp_lock and is blocked on the futex, which reads -1.
NeverBlockWitness ==
    \E r \in Readers, d \in Detectors :
        /\ pc[r] = "loaded"
        /\ gp_lock = d
        /\ gpc[d] = "asleep"
        /\ futex = FutexSleeping

\* The detector d is between acquiring and releasing gp_lock.
InLock(d) == gpc[d] \in {"snap", "check", "mark", "wait", "asleep", "flip", "unlock"}

\* The calls of wait_grace_period by d that have returned.
Returned(d) == IF gpc[d] \in {"idle", "ret"} THEN ngp[d] ELSE ngp[d] - 1

\* C9 (detector serialization): at most one caller of wait_grace_period is
\* between acquiring and releasing gp_lock, it is the holder of gp_lock, and
\* every returned call made its own flip: the flips so far are the returned
\* calls plus the holder's, if it has flipped and not yet released the lock.
DetectorSerialization ==
    /\ Cardinality({d \in Detectors : InLock(d)}) <= 1
    /\ \A d \in Detectors : InLock(d) => gp_lock = d
    /\ nflips = SumOver([d \in Detectors |-> Returned(d)], Detectors)
                + Cardinality({d \in Detectors : gpc[d] = "unlock"})

\* C9 witness: one caller sleeps on the futex holding gp_lock while another
\* has called wait_grace_period and waits for the lock.
SerializationWitness ==
    \E d, o \in Detectors :
        /\ d # o
        /\ gpc[d] = "asleep"
        /\ gpc[o] = "lock"

QuiescedAtFlip ==
    [][\A d \in Detectors :
           (gpc[d] = "flip" /\ gpc'[d] = "unlock")
           => TotalBegin(gp_period[d]) = TotalEnd(gp_period[d])]_vars

\* The readers counted in d's snapshot that are still inside their section:
\* they were inside when the call began and hold a ticket of the period d
\* quiesces.
CountedInside(d) == {r \in heldAtCall[d] : ticket[r] = gp_period[d]}

\* C12 (early wakes are harmless): when a read_end has woken the detector
\* while readers counted in its snapshot were still inside their sections,
\* the detector re-checks and does not flip the period before those readers
\* have ended.
EarlyWakeHarmless ==
    [][\A d \in Detectors :
           (gpc[d] = "flip" /\ gpc'[d] = "unlock" /\ earlyWake)
           => CountedInside(d) = {}]_vars

\* Reader r performs the increment of read_end in this step.
EndIncrement(r) == pc[r] = "cs" /\ pc'[r] = "ended"

\* C13 (read_end follows its ticket): the increment of read_end(ticket) adds
\* one to an end counter (end or rseq_end) of the ticket's period and leaves
\* the end counters of the other period alone, whatever the current period
\* is; the end lands in the bank where the matching begin landed.
EndFollowsTicket ==
    [][\A r \in Readers :
           EndIncrement(r)
           => /\ TotalEnd(ticket[r])' = TotalEnd(ticket[r]) + 1
              /\ TotalEnd(1 - ticket[r])' = TotalEnd(1 - ticket[r])
              /\ \A c \in Cpus :
                     /\ end'[c][1 - ticket[r]] = end[c][1 - ticket[r]]
                     /\ rseq_end'[c][1 - ticket[r]] = rseq_end[c][1 - ticket[r]]
              /\ begin' = begin /\ rseq_begin' = rseq_begin]_vars

\* A reader has ended a section whose ticket is not the current period: the
\* period was flipped between its read_begin and its read_end.
EndAfterFlipWitness ==
    \E r \in Readers :
        /\ pc[r] = "ended"
        /\ flippedSinceLoad[r]
        /\ ticket[r] # period
        /\ TotalEnd(ticket[r]) > 0
        /\ TotalEnd(period) = 0

\* Reader r performs the period load of read_begin in this step.
BeginLoad(r) == pc[r] = "idle" /\ pc'[r] = "loaded"

\* Reader r performs the increment of read_begin in this step and returns.
BeginIncrement(r) == pc[r] = "loaded" /\ pc'[r] = "in"

\* C14 (read_begin counts exactly once): read_begin returns the period p it
\* loaded and adds exactly 1 to exactly one counter, rseq_begin[c][p] when
\* the fast path succeeds (only possible with the capability) and otherwise
\* begin[c][p]; it leaves the period index, the wake channel, every end
\* counter and every counter of period 1 - p unchanged.
ReadBeginCountsOnce ==
    [][\A r \in Readers :
           /\ BeginLoad(r)
              => /\ ticket'[r] = period
                 /\ UNCHANGED <<period, futex, counterVars>>
           /\ BeginIncrement(r)
              => /\ ticket'[r] = ticket[r]
                 /\ UNCHANGED <<period, futex, end, rseq_end>>
                 /\ \E c \in Cpus :
                        \/ /\ rseq_available
                           /\ rseq_begin' = [rseq_begin EXCEPT ![c][ticket[r]] = @ + 1]
                           /\ begin' = begin
                        \/ /\ begin' = [begin EXCEPT ![c][ticket[r]] = @ + 1]
                           /\ rseq_begin' = rseq_begin]_vars

\* One read_begin has completed on the fast path and nothing else has
\* counted: a single counter, of the returned period, holds 1.
ReadBeginWitness ==
    \E r \in Readers : \E c \in Cpus :
        /\ pc[r] = "in"
        /\ rseq_begin[c][ticket[r]] = 1
        /\ TotalBegin(ticket[r]) = 1
        /\ TotalBegin(1 - ticket[r]) = 0
        /\ \A o \in Readers \ {r} : pc[o] = "idle" /\ nsec[o] = 0

\* Some counter of period p changes in this step.
BankChanged(p) ==
    \E c \in Cpus :
        \/ begin'[c][p] # begin[c][p]
        \/ rseq_begin'[c][p] # rseq_begin[c][p]
        \/ end'[c][p] # end[c][p]
        \/ rseq_end'[c][p] # rseq_end[c][p]

\* Period p is the old period: the last flip went from p to 1 - p.
FlippedAwayFrom(p) == nflips > 0 /\ p # period

\* C15 as stated (old-period counters are stable): once the period has been
\* flipped from P to 1 - P, none of the four counters of P on any CPU
\* changes until a later grace period flips back to P.
OldBankStable ==
    [][\A p \in Periods : FlippedAwayFrom(p) => ~BankChanged(p)]_vars

\* C15 as amended: after the flip from P to 1 - P a counter of P changes
\* only in a step of a reader that holds ticket P and loaded the period
\* before that flip (the increment of its read_begin or of its read_end); a
\* read_begin that loads the period after the flip never changes a counter
\* of P.
OldBankOnlyStaleReaders ==
    [][\A p \in Periods :
           (FlippedAwayFrom(p) /\ BankChanged(p))
           => \E r \in Readers :
                  /\ BeginIncrement(r) \/ EndIncrement(r)
                  /\ ticket[r] = p
                  /\ flippedSinceLoad[r]]_vars

\* After the first flip a reader that loaded the period before it has ended
\* in the old bank, which is now balanced.
StaleReaderWitness ==
    \E r \in Readers :
        /\ pc[r] = "ended"
        /\ flippedSinceLoad[r]
        /\ nflips = 1
        /\ FlippedAwayFrom(ticket[r])
        /\ TotalEnd(ticket[r]) = TotalBegin(ticket[r])

\* Reader r takes a step.
ReaderMoved(r) == pc'[r] # pc[r]

\* C16 (wake-channel discipline): the futex only ever holds 0 or -1. A
\* reader writes it only inside read_end, after its end increment, only when
\* it has just observed -1, and only to 0; the store is followed by exactly
\* one wake before the reader returns. No other reader step (read_begin
\* included) changes the futex, so readers never set it to -1.
WakeChannelDiscipline ==
    [][/\ futex \in {FutexIdle, FutexSleeping}
       /\ futex' \in {FutexIdle, FutexSleeping}
       /\ \A r \in Readers :
              /\ (pc'[r] = "ended" /\ ReaderMoved(r)) => EndIncrement(r)
              /\ (pc'[r] = "wstore" /\ ReaderMoved(r))
                 => pc[r] = "ended" /\ futex = FutexSleeping
              /\ (pc[r] = "wstore" /\ ReaderMoved(r))
                 => futex' = FutexIdle /\ pc'[r] = "wwake"
              /\ (pc[r] = "wwake" /\ ReaderMoved(r)) => pc'[r] = "idle"
              /\ (pc[r] # "wstore" /\ ReaderMoved(r)) => futex' = futex
              /\ (pc[r] # "wwake" /\ ReaderMoved(r)) => woken' = woken]_vars

\* A reader that observed -1 after its end increment has stored 0 and is
\* about to issue its one wake to the sleeping detector.
WakeChannelWitness ==
    \E r \in Readers : \E d \in Detectors :
        /\ pc[r] = "wwake"
        /\ futex = FutexIdle
        /\ gpc[d] = "asleep"
        /\ ~woken

\* Detector d takes a step.
DetectorMoved(d) == gpc'[d] # gpc[d]

\* Detector d writes the flipped period index in this step.
FlipStep(d) == gpc[d] = "flip" /\ gpc'[d] = "unlock"

\* C17 (period-index discipline): the period index is always 0 or 1; no
\* reader step writes it; it changes only in the flip step of a detector
\* that holds gp_lock, from the period P the detector recorded to 1 - P, and
\* only after the check of P has passed on every CPU; a call flips exactly
\* once: it returns only after its flip and does nothing to the period
\* between the flip and the return.
PeriodDiscipline ==
    [][/\ period \in Periods /\ period' \in Periods
       /\ \A r \in Readers : ReaderMoved(r) => period' = period
       /\ period' # period
          => \E d \in Detectors :
                 /\ FlipStep(d)
                 /\ gp_lock = d /\ gp_lock' = d
                 /\ period = gp_period[d]
                 /\ period' = 1 - gp_period[d]
                 /\ \A c \in Cpus : EndSum(c, period) >= target[d][c]
       /\ \A d \in Detectors :
              /\ FlipStep(d) => period' # period
              /\ (gpc'[d] = "flip" /\ DetectorMoved(d)) => gpc[d] = "check"
              /\ (gpc[d] = "flip" /\ DetectorMoved(d)) => FlipStep(d)
              /\ (gpc[d] = "unlock" /\ DetectorMoved(d))
                 => gpc'[d] = "ret" /\ period' = period
              /\ (gpc'[d] = "ret" /\ DetectorMoved(d)) => gpc[d] = "unlock"]_vars

\* A detector has flipped the period under the lock after a check against a
\* non-zero target, while the other caller waits for the lock.
PeriodWitness ==
    \E d \in Detectors : \E o \in Detectors \ {d} :
        /\ gpc[d] = "unlock"
        /\ gp_lock = d
        /\ period = 1 - gp_period[d]
        /\ \E c \in Cpus : target[d][c] > 0
        /\ gpc[o] = "lock"

\* C18 (CPU-query failure degrades to CPU 0): when the CPU query of the
\* fallback path answers a negative value, read_begin adds its 1 to CPU 0's
\* begin counter, and read_end to CPU 0's end counter, of the ticket's
\* period; the operation completes as usual and the increment is part of
\* the sums over all CPUs that the detector reads.
QueryFailureUsesCpuZero ==
    [][\A r \in Readers :
           /\ (BeginIncrement(r) /\ queryFailed'[r])
              => /\ begin' = [begin EXCEPT ![0][ticket[r]] = @ + 1]
                 /\ rseq_begin' = rseq_begin
                 /\ TotalBegin(ticket[r])' = TotalBegin(ticket[r]) + 1
                 /\ InSection(r)'
           /\ (EndIncrement(r) /\ queryFailed'[r])
              => /\ end' = [end EXCEPT ![0][ticket[r]] = @ + 1]
                 /\ rseq_end' = rseq_end
                 /\ TotalEnd(ticket[r])' = TotalEnd(ticket[r]) + 1
                 /\ ~InSection(r)']_vars

\* A reader whose CPU query failed in read_end has completed its increment:
\* it is the only end so far and sits in CPU 0's end counter.
QueryFailureWitness ==
    \E r \in Readers :
        /\ pc[r] = "ended"
        /\ queryFailed[r]
        /\ end[0][ticket[r]] = 1
        /\ TotalEnd(ticket[r]) = 1

\* The readers that completed read_begin with ticket p and have not yet
\* performed the increment of read_end.
Holding(p) == {r \in Readers : InSection(r) /\ ticket[r] = p}

\* C19 (counting invariant): for each period p the end counters summed over
\* all CPUs never exceed the begin counters summed over all CPUs, and the
\* difference is the number of readers that completed read_begin with
\* ticket p and have not yet performed the increment of read_end.
CountingInvariant ==
    \A p \in Periods :
        /\ TotalEnd(p) <= TotalBegin(p)
        /\ TotalBegin(p) - TotalEnd(p) = Cardinality(Holding(p))

\* The per-CPU form does not hold: one CPU's end sum exceeds its begin sum
\* (a reader began on another CPU) while a reader still holds the period.
PerCpuImbalanceWitness ==
    \E p \in Periods : \E c \in Cpus :
        /\ EndSum(c, p) > BeginSum(c, p)
        /\ Holding(p) # {}
        /\ TotalBegin(p) - TotalEnd(p) = 1

====
